---- MODULE Spec2Model ----
(***************************************************************************)
(* pure_rng: PureRandomGenerator<H>, a forkable generator whose state is   *)
(* one streaming hasher H.  seed() clones the generator and hashes a label *)
(* into the clone; next_u64() returns finish() of the hasher and writes    *)
(* that value back into it.                                                *)
(*                                                                         *)
(* A generator is the record [hasher |-> h].  A hasher state is            *)
(* [impl |-> k, input |-> chunks]: which Hasher implementation H it is and *)
(* the sequence of byte slices handed to Hasher::write so far.  A u64 is   *)
(* four 16-bit limbs, least significant first; a u32 is two.               *)
(***************************************************************************)
EXTENDS Integers, Sequences, FiniteSets, TLC

VARIABLES
    gens,     \* gens[s]: the generator value held in variable s
    path,     \* path[s]: the state-changing calls that produced gens[s] from default()
    outs,     \* outs[s]: the values those calls returned, in order
    run,      \* run[s]: the current run of consecutive next_u64 calls on s
    last,     \* the call made by the latest step
    impl,     \* the Hasher implementation H the program instantiates
    steps     \* calls made so far

vars == <<gens, path, outs, run, last, impl, steps>>

\* ------------------------------------------------------------------ bounds
NumHolders == 2
MaxSteps == 3
DigestSpace == 5
MaxFill == 13
MaxFillCalls == 2
MaxAdapterDraws == 2
MaxWrapperCalls == 2
MaxRejects == 3
MaxLength == 4
MaxIndexCalls == 3
MaxAbsorbSteps == 3

Root == 0
Slots == 0..NumHolders
Holders == 1..NumHolders
FirstHolder == CHOOSE h \in Holders : \A g \in Holders : h <= g
\* pub type PureRng = PureRandomGenerator<RapidHasher>
RapidHasher == 1
Hashers == {RapidHasher}

\* ------------------------------------------------------------- the hasher H
\* PureRandomGenerator is generic in H: Hasher + Default + Clone; PureRng
\* instantiates it with RapidHasher.  Implementation k mixes the written
\* bytes, slice by slice, into an accumulator and finish() widens one of
\* DigestSpace digests to 64 bits.

H_default(k) == [impl |-> k, input |-> <<>>]

\* Hasher::write(&mut self, bytes)
write(h, bytes) == [h EXCEPT !.input = Append(@, bytes)]

\* Hasher::write_u8: self.write(&[i])
write_u8(h, i) == write(h, <<i>>)

\* u64::to_le_bytes
to_le_bytes(v) ==
    <<v[1] % 256, v[1] \div 256, v[2] % 256, v[2] \div 256,
      v[3] % 256, v[3] \div 256, v[4] % 256, v[4] \div 256>>

\* u64::to_ne_bytes on a little-endian target
to_ne_bytes(v) == to_le_bytes(v)

\* u32::to_le_bytes
u32_to_le_bytes(w) == <<w[1] % 256, w[1] \div 256, w[2] % 256, w[2] \div 256>>

\* `x as u32` for x: u64: the low 32 bits
as_u32(v) == <<v[1], v[2]>>

\* Hasher::write_u64: self.write(&i.to_ne_bytes())
write_u64(h, i) == write(h, to_ne_bytes(i))

\* (The guard acc < 0 never holds; it has acc evaluated at every step, so that
\* a long input is mixed without a deep chain of pending evaluations.)
RECURSIVE MixBytes(_, _)
MixBytes(acc, bytes) ==
    IF bytes = <<>> \/ acc < 0 THEN acc
    ELSE MixBytes((acc * 33 + Head(bytes) + 1) % 65521, Tail(bytes))

RECURSIVE MixChunks(_, _)
MixChunks(acc, chunks) ==
    IF chunks = <<>> \/ acc < 0 THEN acc
    ELSE MixChunks((MixBytes(acc, Head(chunks)) * 31 + Len(Head(chunks)) + 7) % 65521,
                   Tail(chunks))

Widen(d) ==
    <<(d * 40503 + 1) % 65536, (d * 30011 + 7) % 65536,
      (d * 12347 + 11) % 65536, (d * 50021 + 13) % 65536>>

\* Hasher::finish(&self) -> u64: a pure function of the state, which it leaves as it is
finish(h) == Widen(MixChunks(h.impl * 977, h.input) % DigestSpace)

\* ------------------------------------------------------------------ labels
\* impl Hash for str: state.write(s.as_bytes()); state.write_u8(0xff)
\* impl Hash for u64: state.write_u64(*self)
StrLabel(bytes) == [t |-> "str", v |-> bytes]
U64Label(x) == [t |-> "u64", v |-> x]

lol == StrLabel(<<108, 111, 108>>)
foo == StrLabel(<<102, 111, 111>>)
bar == StrLabel(<<98, 97, 114>>)
Labels == {lol, foo, bar}
\* the seeds a root is built from: a string, or gray_i = 0 of examples/test_stream.rs
Seeds == {lol, U64Label(<<0, 0, 0, 0>>)}

hash_terminated(hashable, state) ==
    write_u8(IF hashable.t = "str" THEN write(state, hashable.v)
             ELSE write_u64(state, hashable.v), 255)

hash(hashable, state) ==
    IF hashable.t = "str" THEN write_u8(write(state, hashable.v), 255)
    ELSE write_u64(state, hashable.v)

\* ------------------------------------------------------- PureRandomGenerator
\* Every operation returns the receiver as its caller holds it after the call
\* (self) beside its result.

default(k) == [hasher |-> H_default(k)]

clone(self) == [hasher |-> self.hasher]

seed_in_place(self, hashable) ==
    LET fork == [hasher |-> hash(hashable, self.hasher)]
    IN  [self |-> fork, fork |-> fork]

seed_ignore_label(self, hashable) ==
    [self |-> self, fork |-> clone(self)]

seed(self, hashable) ==
    LET fork == clone(self)
    IN  [self |-> self, fork |-> [fork EXCEPT !.hasher = hash(hashable, @)]]

new_no_seed(k, hashable) == default(k)

new(k, hashable) == seed(default(k), hashable).fork

next_u64_write_first(self) ==
    LET adv == write_u64(self.hasher, finish(self.hasher))
    IN  [self |-> [hasher |-> adv], val |-> finish(adv)]

next_u64_no_advance(self) ==
    [self |-> self, val |-> finish(self.hasher)]

next_u64(self) ==
    LET val == finish(self.hasher)
    IN  [self |-> [hasher |-> write_u64(self.hasher, val)], val |-> val]

next_u32_high(self) ==
    LET r == next_u64(self)
    IN  [self |-> r.self, val |-> <<r.val[3], r.val[4]>>]

next_u32(self) ==
    LET r == next_u64(self)
    IN  [self |-> r.self, val |-> as_u32(r.val)]

\* rand_core::impls::fill_bytes_via_next, which fill_bytes delegates to: whole
\* 8-byte chunks from next_u64, then a tail of 5..7 bytes from next_u64 or of
\* 1..4 bytes from next_u32.  dest is the buffer as passed in.
RECURSIVE fill_bytes_via_next(_, _)
fill_bytes_via_next(rng, dest) ==
    LET n == Len(dest)
    IN  IF n >= 8 THEN
            LET r == next_u64(rng)
                rest == fill_bytes_via_next(r.self, SubSeq(dest, 9, n))
            IN  [self |-> rest.self, dest |-> to_le_bytes(r.val) \o rest.dest]
        ELSE IF n > 4 THEN
            LET r == next_u64(rng)
            IN  [self |-> r.self, dest |-> SubSeq(to_le_bytes(r.val), 1, n)]
        ELSE IF n > 0 THEN
            LET r == next_u32(rng)
            IN  [self |-> r.self, dest |-> SubSeq(u32_to_le_bytes(r.val), 1, n)]
        ELSE [self |-> rng, dest |-> dest]

RECURSIVE fill_bytes_whole_chunks(_, _)
fill_bytes_whole_chunks(self, dest) ==
    LET n == Len(dest)
    IN  IF n >= 8 THEN
            LET r == next_u64(self)
                rest == fill_bytes_whole_chunks(r.self, SubSeq(dest, 9, n))
            IN  [self |-> rest.self, dest |-> to_le_bytes(r.val) \o rest.dest]
        ELSE [self |-> self, dest |-> dest]

fill_bytes(self, dest) == fill_bytes_via_next(self, dest)

try_fill_bytes(self, dest) ==
    LET r == fill_bytes(self, dest)
    IN  [self |-> r.self, dest |-> r.dest, res |-> "Ok"]

\* ---------------------------------------------------- wrappers taking `mut self`
\* The receiver is passed by value (the type is Copy): the wrapper draws from
\* its own copy and the caller's value stays as it was.

gen_by_ref(self, T) ==
    LET r == IF T = "u64" THEN next_u64(self) ELSE next_u32(self)
    IN  [self |-> r.self, val |-> r.val]

\* gen::<T>() through Standard: u64 from next_u64, u32 from next_u32
gen(self, T) ==
    LET r == IF T = "u64" THEN next_u64(self) ELSE next_u32(self)
    IN  [self |-> self, val |-> r.val]

\* fill(dest) for dest: [u8], through Fill: try_fill_bytes
fill(self, dest) ==
    LET r == try_fill_bytes(self, dest)
    IN  [self |-> self, val |-> r.dest]

\* What a rand algorithm that borrows the local copy (&mut rng) does to it: a
\* number of next_u32 / next_u64 draws, `kinds` naming them in order.
RECURSIVE rng_draws(_, _)
rng_draws(rng, kinds) ==
    IF kinds = <<>> THEN [rng |-> rng, vals |-> <<>>]
    ELSE LET r == IF Head(kinds) = "u64" THEN next_u64(rng) ELSE next_u32(rng)
             rest == rng_draws(r.self, Tail(kinds))
         IN  [rng |-> rest.rng, vals |-> <<r.val>> \o rest.vals]

\* gen_range, sample, gen_bool, gen_ratio and the seq wrappers (choose, shuffle,
\* seq::index::sample): Rng::f(&mut self, ..) / SliceRandom::f(self, &mut rng)
by_value(self, kinds) ==
    LET r == rng_draws(self, kinds)
    IN  [self |-> self, val |-> r.vals]

\* ------------------------------------------------- seq::index (src/seq/index.rs)
\* The wrappers hand `&mut rng` of their by-value parameter to rand's
\* seq::index::sample / sample_weighted.  What follows is rand 0.8's code for
\* lengths that fit u32 and amounts under 50, with every loop that waits for the
\* generator cut off after MaxRejects rejected draws (done = FALSE).

\* range << range.leading_zeros(), as the high 16-bit limb (the low limb is 0)
RECURSIVE ShiftToTop(_)
ShiftToTop(range) == IF range >= 32768 THEN range ELSE ShiftToTop(range * 2)

\* v.wmul(range) for a u32 v of two limbs and range < 2^15: (hi, lo) of the product
wmul(v, range) ==
    LET a == v[1] * range
        c == (a \div 65536) + v[2] * range
    IN  [hi |-> c \div 65536, lo |-> <<a % 65536, c % 65536>>]

\* UniformInt<u32>::sample_single_inclusive(low, high, rng): widening multiply
\* of a next_u32 draw, redrawn while the low word is above the zone
RECURSIVE sample_single_inclusive(_, _, _, _)
sample_single_inclusive(low, high, rng, fuel) ==
    LET range == high - low + 1
        zone == <<65535, ShiftToTop(range) - 1>>
        r == next_u32(rng)
        m == wmul(r.val, range)
    IN  IF m.lo[2] < zone[2] \/ (m.lo[2] = zone[2] /\ m.lo[1] <= zone[1]) THEN
            [rng |-> r.self, val |-> low + m.hi, done |-> TRUE]
        ELSE IF fuel = 0 THEN [rng |-> r.self, val |-> low, done |-> FALSE]
        ELSE sample_single_inclusive(low, high, r.self, fuel - 1)

\* rng.gen_range(low..=high)
gen_range_inclusive(rng, low, high) ==
    sample_single_inclusive(low, high, rng, MaxRejects)

\* indices.iter().position(|&x| x == t): 1-based, 0 for None
position(indices, t) ==
    IF \E p \in 1..Len(indices) : indices[p] = t
    THEN CHOOSE p \in 1..Len(indices) :
             indices[p] = t /\ \A q \in 1..(p - 1) : indices[q] # t
    ELSE 0

\* indices.insert(pos, j)
insert(indices, pos, j) ==
    SubSeq(indices, 1, pos - 1) \o <<j>> \o SubSeq(indices, pos, Len(indices))

\* What an index sampler hands back: the IndexVec, or a panic, or (done = FALSE)
\* no return within MaxRejects rejected draws.
Sampled(rng, indices) == [rng |-> rng, res |-> "Ok", indices |-> indices, done |-> TRUE]
Waiting(rng) == [rng |-> rng, res |-> "Ok", indices |-> <<>>, done |-> FALSE]
Panicked(rng) == [rng |-> rng, res |-> "panic", indices |-> <<>>, done |-> TRUE]
Failed(rng, err) == [rng |-> rng, res |-> err, indices |-> <<>>, done |-> TRUE]

\* sample_floyd (amount < 50): `for j in length - amount..length`, t drawn from
\* 0..=j; j is inserted where t already stands, else t is pushed
RECURSIVE sample_floyd_loop(_, _, _, _)
sample_floyd_loop(rng, j, length, indices) ==
    IF j >= length THEN Sampled(rng, indices)
    ELSE
        LET t == gen_range_inclusive(rng, 0, j)
            pos == position(indices, t.val)
        IN  IF ~t.done THEN Waiting(t.rng)
            ELSE sample_floyd_loop(t.rng, j + 1, length,
                     IF pos > 0 THEN insert(indices, pos, j)
                     ELSE Append(indices, t.val))

sample_floyd(rng, length, amount) ==
    sample_floyd_loop(rng, length - amount, length, <<>>)

\* indices.swap(i, j), 1-based
swap(indices, i, j) ==
    [indices EXCEPT ![i] = indices[j], ![j] = indices[i]]

\* sample_inplace: a partial Fisher-Yates over 0..length, `for i in 0..amount`
\* swapping i with gen_range(i..length), then truncate(amount)
RECURSIVE sample_inplace_loop(_, _, _, _, _)
sample_inplace_loop(rng, i, length, amount, indices) ==
    IF i >= amount THEN Sampled(rng, SubSeq(indices, 1, amount))
    ELSE
        LET j == gen_range_inclusive(rng, i, length - 1)
        IN  IF ~j.done THEN Waiting(j.rng)
            ELSE sample_inplace_loop(j.rng, i + 1, length, amount,
                     swap(indices, i + 1, j.val + 1))

sample_inplace(rng, length, amount) ==
    sample_inplace_loop(rng, 0, length, amount, [k \in 1..length |-> k - 1])

\* rand::seq::index::sample(&mut rng, length, amount), length < 500_000 and
\* amount < 50: Floyd's algorithm unless amount > 11 and
\* length < (10 * amount + 1.6 * amount) * amount
seq_index_sample(rng, length, amount) ==
    IF amount > length THEN Panicked(rng)
    ELSE IF amount > 11 /\ 10 * length < 116 * amount * amount
         THEN sample_inplace(rng, length, amount)
    ELSE sample_floyd(rng, length, amount)

\* rng.gen::<f64>(): the high bits of one next_u64 draw as a fraction of 1;
\* here the top two bits, val / 4
gen_f64(rng) ==
    LET r == next_u64(rng)
    IN  [rng |-> r.self, val |-> r.val[4] \div 16384]

\* key = u.powf(1.0 / weight) for u = n / 4 < 1: zero for weight 0 or u = 0
KeyIsZero(k) == k.w = 0 \/ k.n = 0

\* a.key < b.key, both sides raised to the power a.w * b.w
KeyLess(a, b) ==
    IF KeyIsZero(b) THEN FALSE
    ELSE IF KeyIsZero(a) THEN TRUE
    ELSE (a.n ^ b.w) * (4 ^ a.w) < (b.n ^ a.w) * (4 ^ b.w)

\* `while index < length`: a weight that is not >= 0 ends the call with
\* InvalidWeight, else one key per index is pushed
RECURSIVE candidates(_, _, _, _)
candidates(rng, index, weight, cands) ==
    IF index >= Len(weight) THEN [rng |-> rng, res |-> "Ok", cands |-> cands]
    ELSE IF ~(weight[index + 1] >= 0) THEN
        [rng |-> rng, res |-> "InvalidWeight", cands |-> cands]
    ELSE
        LET u == gen_f64(rng)
        IN  candidates(u.rng, index + 1, weight,
                Append(cands, [index |-> index, n |-> u.val, w |-> weight[index + 1]]))

\* `while result.len() < amount { result.push(candidates.pop().unwrap().index) }`:
\* the candidate of the largest key, of equal keys the one of the lowest index
RECURSIVE pop_largest(_, _)
pop_largest(cands, amount) ==
    IF amount = 0 THEN <<>>
    ELSE
        LET top == CHOOSE p \in 1..Len(cands) :
                       /\ \A q \in 1..Len(cands) : ~KeyLess(cands[p], cands[q])
                       /\ \A q \in 1..(p - 1) : KeyLess(cands[q], cands[p])
            rest == SubSeq(cands, 1, top - 1) \o SubSeq(cands, top + 1, Len(cands))
        IN  <<cands[top].index>> \o pop_largest(rest, amount - 1)

\* rand::seq::index::sample_weighted(&mut rng, length, weight, amount), the
\* weights weight(0), .., weight(length - 1) given as a sequence
seq_index_sample_weighted(rng, length, weight, amount) ==
    IF amount = 0 THEN Sampled(rng, <<>>)
    ELSE IF amount > length THEN Panicked(rng)
    ELSE
        LET c == candidates(rng, 0, weight, <<>>)
        IN  IF c.res # "Ok" THEN Failed(c.rng, c.res)
            ELSE Sampled(c.rng, pop_largest(c.cands, amount))

sample_swapped(rng, length, amount) ==
    [self |-> rng, val |-> seq_index_sample(rng, amount, length)]

\* seq::index::sample(mut rng: PureRng, length, amount)
sample(rng, length, amount) ==
    [self |-> rng, val |-> seq_index_sample(rng, length, amount)]

\* seq::index::sample_weighted(mut rng: PureRng, length, weight, amount)
sample_weighted(rng, length, weight, amount) ==
    [self |-> rng, val |-> seq_index_sample_weighted(rng, length, weight, amount)]

\* ------------------------------------------------------------ the program
\* Variable Root is an immutable binding (`let rng = ...`) that every part of
\* the program may read; the Holders are `let mut` bindings, one per caller
\* or thread, each starting as its own copy of the root (the type is Copy).
\* A step is one call, made by whoever holds the binding.

NoArg == [t |-> "none", v |-> <<>>]
LenArg(n) == [t |-> "len", v |-> <<n>>]
KindsArg(kinds) == [t |-> "kinds", v |-> kinds]
Call(op, arg) == [op |-> op, arg |-> arg]
Fresh(g) == [start |-> g, vals |-> <<>>]
Zeros(n) == [i \in 1..n |-> 0]
DrawKinds == UNION {[1..n -> {"u32", "u64"}] : n \in 0..MaxAdapterDraws}
NoTarget == 0 - 1

Did(op, slot, target, pre, arg, val) ==
    [op |-> op, slot |-> slot, target |-> target, pre |-> pre, arg |-> arg, val |-> val]

Init ==
    /\ impl \in Hashers
    /\ \E p \in {<<>>} \cup {<<Call("seed", l)>> : l \in Seeds} :
          /\ path = [s \in Slots |-> p]
          /\ gens = [s \in Slots |->
                        IF p = <<>> THEN default(impl) ELSE new(impl, p[1].arg)]
    /\ outs = [s \in Slots |-> <<>>]
    /\ run = [s \in Slots |-> Fresh(gens[s])]
    /\ last = Did("init", Root, Root, gens[Root], NoArg, <<>>)
    /\ steps = 0

\* let s = PureRng::default();
Default(d) ==
    /\ steps < MaxSteps
    /\ gens' = [gens EXCEPT ![d] = default(impl)]
    /\ path' = [path EXCEPT ![d] = <<>>]
    /\ outs' = [outs EXCEPT ![d] = <<>>]
    /\ run' = [run EXCEPT ![d] = Fresh(gens'[d])]
    /\ last' = Did("default", d, d, gens[d], NoArg, <<>>)
    /\ steps' = steps + 1
    /\ UNCHANGED impl

\* let s = PureRng::new(hashable);
New(d, hashable) ==
    /\ steps < MaxSteps
    /\ gens' = [gens EXCEPT ![d] = new(impl, hashable)]
    /\ path' = [path EXCEPT ![d] = <<Call("seed", hashable)>>]
    /\ outs' = [outs EXCEPT ![d] = <<>>]
    /\ run' = [run EXCEPT ![d] = Fresh(gens'[d])]
    /\ last' = Did("new", d, d, gens[d], hashable, <<>>)
    /\ steps' = steps + 1
    /\ UNCHANGED impl

\* d = s.seed(hashable);   (d may be s itself)
Seed(d, s, hashable) ==
    /\ steps < MaxSteps
    /\ LET r == seed(gens[s], hashable)
       IN  /\ gens' = [[gens EXCEPT ![s] = r.self] EXCEPT ![d] = r.fork]
           /\ run' = [run EXCEPT ![d] = Fresh(r.fork)]
    /\ path' = [path EXCEPT ![d] = Append(path[s], Call("seed", hashable))]
    /\ outs' = [outs EXCEPT ![d] = outs[s]]
    /\ last' = Did("seed", s, d, gens[s], hashable, <<>>)
    /\ steps' = steps + 1
    /\ UNCHANGED impl

\* d = s;   (Copy)
CopyOf(d, s) ==
    /\ steps < MaxSteps
    /\ d # s
    /\ gens' = [gens EXCEPT ![d] = clone(gens[s])]
    /\ path' = [path EXCEPT ![d] = path[s]]
    /\ outs' = [outs EXCEPT ![d] = outs[s]]
    /\ run' = [run EXCEPT ![d] = Fresh(gens'[d])]
    /\ last' = Did("copy", s, d, gens[s], NoArg, <<>>)
    /\ steps' = steps + 1
    /\ UNCHANGED impl

\* s.next_u64()   (RngCore, &mut self)
NextU64(s) ==
    /\ steps < MaxSteps
    /\ LET r == next_u64(gens[s])
       IN  /\ gens' = [gens EXCEPT ![s] = r.self]
           /\ outs' = [outs EXCEPT ![s] = Append(@, r.val)]
           /\ run' = [run EXCEPT ![s].vals = Append(@, r.val)]
           /\ last' = Did("next_u64", s, s, gens[s], NoArg, r.val)
    /\ path' = [path EXCEPT ![s] = Append(@, Call("next_u64", NoArg))]
    /\ steps' = steps + 1
    /\ UNCHANGED impl

\* s.next_u32()   (RngCore, &mut self)
NextU32(s) ==
    /\ steps < MaxSteps
    /\ LET r == next_u32(gens[s])
       IN  /\ gens' = [gens EXCEPT ![s] = r.self]
           /\ outs' = [outs EXCEPT ![s] = Append(@, r.val)]
           /\ run' = [run EXCEPT ![s] = Fresh(r.self)]
           /\ last' = Did("next_u32", s, s, gens[s], NoArg, r.val)
    /\ path' = [path EXCEPT ![s] = Append(@, Call("next_u32", NoArg))]
    /\ steps' = steps + 1
    /\ UNCHANGED impl

\* s.fill_bytes(&mut dest) with dest.len() = n   (RngCore, &mut self)
FillBytes(s, n) ==
    /\ steps < MaxFillCalls
    /\ LET r == fill_bytes(gens[s], Zeros(n))
       IN  /\ gens' = [gens EXCEPT ![s] = r.self]
           /\ outs' = [outs EXCEPT ![s] = Append(@, r.dest)]
           /\ run' = [run EXCEPT ![s] = Fresh(r.self)]
           /\ last' = Did("fill_bytes", s, s, gens[s], LenArg(n), r.dest)
    /\ path' = [path EXCEPT ![s] = Append(@, Call("fill_bytes", LenArg(n)))]
    /\ steps' = steps + 1
    /\ UNCHANGED impl

\* s.try_fill_bytes(&mut dest) with dest.len() = n   (RngCore, &mut self)
TryFillBytes(s, n) ==
    /\ steps < MaxFillCalls
    /\ LET r == try_fill_bytes(gens[s], Zeros(n))
       IN  /\ r.res = "Ok"
           /\ gens' = [gens EXCEPT ![s] = r.self]
           /\ outs' = [outs EXCEPT ![s] = Append(@, r.dest)]
           /\ run' = [run EXCEPT ![s] = Fresh(r.self)]
           /\ last' = Did("try_fill_bytes", s, s, gens[s], LenArg(n), r.dest)
    /\ path' = [path EXCEPT ![s] = Append(@, Call("fill_bytes", LenArg(n)))]
    /\ steps' = steps + 1
    /\ UNCHANGED impl

\* A call that takes the generator by value leaves the caller with r.self.
ByValue(op, s, arg, r) ==
    /\ gens' = [gens EXCEPT ![s] = r.self]
    /\ last' = Did(op, s, NoTarget, gens[s], arg, r.val)
    /\ steps' = steps + 1
    /\ UNCHANGED <<path, outs, run, impl>>

\* let v: T = s.gen();
Gen(s, T) ==
    /\ steps < MaxSteps
    /\ ByValue("gen", s, KindsArg(<<T>>), gen(gens[s], T))

\* s.fill(&mut dest) with dest.len() = n
Fill(s, n) ==
    /\ steps < MaxSteps
    /\ ByValue("fill", s, LenArg(n), fill(gens[s], Zeros(n)))

\* s.gen_range(..), s.sample(..), s.gen_bool(..), s.gen_ratio(..), slice.choose(s),
\* slice.shuffle(s), seq::index::sample(s, ..)
Adapter(s, kinds) ==
    /\ steps < MaxWrapperCalls
    /\ ByValue("by_value", s, KindsArg(kinds), by_value(gens[s], kinds))

Next ==
    \/ \E d \in Holders, s \in Slots, l \in Labels : Seed(d, s, l)
    \/ \E d \in Holders, s \in Slots : CopyOf(d, s)
    \/ \E s \in Holders : NextU64(s)
    \/ \E s \in Slots : Gen(s, "u64")

Spec == Init /\ [][Next]_vars

\* One caller that draws in place and fills buffers of every length up to MaxFill.
NextU64ForFill(s) == steps < MaxFillCalls /\ NextU64(s)
NextU32ForFill(s) == steps < MaxFillCalls /\ NextU32(s)

NextFill ==
    \/ NextU64ForFill(FirstHolder)
    \/ NextU32ForFill(FirstHolder)
    \/ \E n \in 0..MaxFill : FillBytes(FirstHolder, n)
    \/ \E n \in 0..MaxFill : TryFillBytes(FirstHolder, n)

SpecFill == Init /\ [][NextFill]_vars

\* One caller that constructs generators and hands them, and the root, by value
\* to the wrappers.
DefaultForWrapper(d) == steps < MaxWrapperCalls /\ Default(d)
NewForWrapper(d, l) == steps < MaxWrapperCalls /\ New(d, l)
SeedForWrapper(d, s, l) == steps < MaxWrapperCalls /\ Seed(d, s, l)
NextU64ForWrapper(s) == steps < MaxWrapperCalls /\ NextU64(s)
GenForWrapper(s, T) == steps < MaxWrapperCalls /\ Gen(s, T)
FillForWrapper(s, n) == steps < MaxWrapperCalls /\ Fill(s, n)

NextWrapper ==
    \/ DefaultForWrapper(FirstHolder)
    \/ \E l \in Seeds : NewForWrapper(FirstHolder, l)
    \/ \E s \in {Root, FirstHolder}, l \in Labels : SeedForWrapper(FirstHolder, s, l)
    \/ NextU64ForWrapper(FirstHolder)
    \/ \E s \in {Root, FirstHolder}, T \in {"u32", "u64"} : GenForWrapper(s, T)
    \/ \E s \in {Root, FirstHolder}, n \in {0, MaxFill} : FillForWrapper(s, n)
    \/ \E s \in {Root, FirstHolder}, kinds \in DrawKinds : Adapter(s, kinds)

SpecWrapper == Init /\ [][NextWrapper]_vars

\* One caller that derives a generator and then hands it by value to an index
\* sampler.
IndexArg(length, amount) == [t |-> "index", v |-> <<length, amount>>]
WeightedArg(length, amount, weight) == [t |-> "weighted", v |-> <<length, amount, weight>>]
IndexOps == {"index_sample", "index_sample_weighted"}

\* (length, amount) sampled: every amount up to length + 1 of every length up to
\* MaxLength, and amount 12, which rand samples in place, of lengths 12 and 13
Samples ==
    {<<length, amount>> \in (0..MaxLength) \X (0..(MaxLength + 1)) : amount <= length + 1}
        \cup {<<12, 12>>, <<13, 12>>}

\* weight closures: |i| i as f64 (tests::test_sample_weighted), |_| 1.0, and one
\* that is negative for the last index
Weights(length) ==
    {[i \in 1..length |-> i - 1], [i \in 1..length |-> 1],
     [i \in 1..length |-> IF i = length THEN 0 - 1 ELSE 1]}

\* let indices = seq::index::sample(s, length, amount);
IndexSample(s, length, amount) ==
    /\ steps < MaxIndexCalls
    /\ last.op \notin IndexOps
    /\ LET r == sample(gens[s], length, amount)
       IN  r.val.done /\ ByValue("index_sample", s, IndexArg(length, amount), r)

\* let indices = seq::index::sample_weighted(s, length, weight, amount);
IndexSampleWeighted(s, length, weight, amount) ==
    /\ steps < MaxIndexCalls
    /\ last.op \notin IndexOps
    /\ LET r == sample_weighted(gens[s], length, weight, amount)
       IN  r.val.done
           /\ ByValue("index_sample_weighted", s, WeightedArg(length, amount, weight), r)

SeedForIndex(d, s, l) ==
    steps < MaxIndexCalls /\ last.op \notin IndexOps /\ Seed(d, s, l)
NextU64ForIndex(s) ==
    steps < MaxIndexCalls /\ last.op \notin IndexOps /\ NextU64(s)

NextIndex ==
    \/ \E s \in {Root, FirstHolder}, l \in Labels : SeedForIndex(FirstHolder, s, l)
    \/ NextU64ForIndex(FirstHolder)
    \/ \E p \in Samples : IndexSample(FirstHolder, p[1], p[2])
    \/ \E p \in Samples : p[1] <= MaxLength /\
          \E weight \in Weights(p[1]) : IndexSampleWeighted(FirstHolder, p[1], weight, p[2])

SpecIndex == Init /\ [][NextIndex]_vars

\* Callers that label forks with integers they have drawn: a value returned by
\* next_u64 or by gen::<u64>(), or gray_i = 0.
KnownU64 ==
    UNION {{outs[s][k] : k \in 1..Len(outs[s])} : s \in Slots}
        \cup (IF last.op = "gen" THEN {last.val} ELSE {})
        \cup {<<0, 0, 0, 0>>}

SeedForAbsorb(d, s, l) == steps < MaxAbsorbSteps /\ Seed(d, s, l)
\* d = s.seed(v) for a u64 v the program holds
SeedU64(d, s, v) == steps < MaxAbsorbSteps /\ Seed(d, s, U64Label(v))
NextU64ForAbsorb(s) == steps < MaxAbsorbSteps /\ NextU64(s)
GenForAbsorb(s) == steps < MaxAbsorbSteps /\ Gen(s, "u64")

NextAbsorb ==
    \/ \E d \in Holders, s \in Slots : SeedForAbsorb(d, s, lol)
    \/ \E d \in Holders, s \in Slots, v \in KnownU64 : SeedU64(d, s, v)
    \/ \E s \in Holders : NextU64ForAbsorb(s)
    \/ \E s \in Slots : GenForAbsorb(s)

SpecAbsorb == Init /\ [][NextAbsorb]_vars

\* ------------------------------------------------------------ reference runs
\* What one caller observes when it makes the calls of p alone, from default().
RECURSIVE RunAlone(_, _)
RunAlone(k, p) ==
    IF p = <<>> THEN [gen |-> default(k), outs |-> <<>>]
    ELSE
        LET before == RunAlone(k, SubSeq(p, 1, Len(p) - 1))
            c == p[Len(p)]
        IN  IF c.op = "seed" THEN
                [gen |-> seed(before.gen, c.arg).fork, outs |-> before.outs]
            ELSE IF c.op = "next_u64" THEN
                LET r == next_u64(before.gen)
                IN  [gen |-> r.self, outs |-> Append(before.outs, r.val)]
            ELSE IF c.op = "next_u32" THEN
                LET r == next_u32(before.gen)
                IN  [gen |-> r.self, outs |-> Append(before.outs, r.val)]
            ELSE
                LET r == fill_bytes(before.gen, Zeros(c.arg.v[1]))
                IN  [gen |-> r.self, outs |-> Append(before.outs, r.dest)]

\* The hasher h after the 64-bit values vals were written to it, in order.
RECURSIVE AbsorbAll(_, _)
AbsorbAll(h, vals) ==
    IF vals = <<>> THEN h
    ELSE AbsorbAll(write_u64(h, Head(vals)), Tail(vals))

\* k draw-and-advance steps from generator g: the digests and the generator left.
RECURSIVE Draws(_, _)
Draws(g, k) ==
    IF k = 0 THEN [gen |-> g, vals |-> <<>>]
    ELSE
        LET d == finish(g.hasher)
            rest == Draws([hasher |-> write_u64(g.hasher, d)], k - 1)
        IN  [gen |-> rest.gen, vals |-> <<d>> \o rest.vals]

\* Byte i (0 = least significant) of the 64-bit value v.
LEByte(v, i) ==
    (v[(i \div 2) + 1] \div (IF i % 2 = 0 THEN 1 ELSE 256)) % 256

\* p holds only seed() calls: a path of labels from default().
LabelPath(p) == \A k \in 1..Len(p) : p[k].op = "seed"

FirstDraw(g) == gen(g, "u64").val

ByValueOps == {"gen", "fill", "by_value"}

\* ------------------------------------------------------------------ claims

\* C1 (Determinism): two generators reached by the same calls from default() -
\* the same seed and label sequence, the same in-place draws - are equal, have
\* returned the same values, and give the same u64 when drawn by value.
C1_Determinism ==
    \A i, j \in Slots :
        i < j /\ path[i] = path[j] =>
            /\ gens[i] = gens[j]
            /\ outs[i] = outs[j]
            /\ FirstDraw(gens[i]) = FirstDraw(gens[j])

\* Two callers have each derived, on their own, a generator by the same calls.
C1_Witness ==
    /\ steps = 2
    /\ last.op \in {"seed", "next_u64"}
    /\ \E j \in Holders :
          /\ j # last.target
          /\ path[j] = path[last.target]
          /\ path[j] # path[Root]

\* C2 (Fork does not mutate its receiver): a step d = s.seed(l) with d another
\* variable leaves gens[s] as it was, and every step leaves every generator other
\* than the one it assigns or draws from in place as it was.
C2_ForkFrame ==
    [][/\ (last'.op = "seed" /\ last'.target # last'.slot
              => gens'[last'.slot] = gens[last'.slot])
       /\ \A s \in Slots : s # last'.target => gens'[s] = gens[s]]_vars

\* A child forked from a holder has been drawn from in place, its parent still
\* holding the state the child was forked from.
C2_Witness ==
    /\ last.op = "next_u64"
    /\ \E p \in Holders :
          /\ p # last.slot
          /\ Len(path[p]) > Len(path[Root])
          /\ \E l \in Labels :
                path[last.slot] = path[p] \o <<Call("seed", l), Call("next_u64", NoArg)>>

\* C3 (Draw consumes a copy): after a call that takes the generator by value
\* (gen, fill, the Rng and seq wrappers) the caller's value is what it was before
\* the call, a second gen() on it returns what the first returned, and every
\* variable still holds the generator its own calls from default() produce.
C3_DrawConsumesCopy ==
    /\ last.op \in ByValueOps => gens[last.slot] = last.pre
    /\ last.op = "gen" => gen(gens[last.slot], last.arg.v[1]).val = last.val
    /\ \A s \in Slots : gens[s] = RunAlone(impl, path[s]).gen

\* A wrapper has drawn from a copy of a generator that was itself forked.
C3_Witness ==
    /\ last.op \in ByValueOps
    /\ last.val # <<>>
    /\ last.slot = FirstHolder
    /\ Len(path[FirstHolder]) > Len(path[Root])

\* C4 (next_u64 is draw-then-advance): the value returned is finish() of the
\* state before the call and the state after is that state with the value
\* written to it by write_u64; so the k-th value of a run of draws is finish()
\* of the run's first state with the k-1 earlier values written to it in order.
C4_DrawThenAdvance ==
    /\ last.op = "next_u64" =>
          /\ last.val = finish(last.pre.hasher)
          /\ gens[last.slot].hasher = write(last.pre.hasher, to_ne_bytes(last.val))
    /\ \A s \in Slots :
          /\ gens[s].hasher = AbsorbAll(run[s].start.hasher, run[s].vals)
          /\ \A k \in 1..Len(run[s].vals) :
                run[s].vals[k] =
                    finish(AbsorbAll(run[s].start.hasher, SubSeq(run[s].vals, 1, k - 1)))

\* A generator has been drawn from three times in a row.
C4_Witness ==
    \E s \in Holders : Len(run[s].vals) >= 3

C6_InterleavingInsensitive ==
    /\ \A s \in Slots :
          LET alone == RunAlone(impl, path[s])
          IN  gens[s] = alone.gen /\ outs[s] = alone.outs
    /\ LabelPath(path[Root]) /\ Len(path[Root]) <= 1 /\ outs[Root] = <<>>
    /\ gens[Root] = IF path[Root] = <<>> THEN default(impl)
                    ELSE new(impl, path[Root][1].arg)

\* Two holders have drawn in place, one of them from a generator it forked from
\* the shared root.
C6_Witness ==
    \E i, j \in Holders :
        /\ i # j
        /\ Len(outs[i]) >= 1 /\ Len(outs[j]) >= 1
        /\ \E l \in Labels : path[i][Len(path[Root]) + 1] = Call("seed", l)
        /\ last.op = "next_u64" /\ last.slot = j

\* C7 (fill_bytes): for a buffer of n bytes, byte i of the buffer is byte
\* (i mod 8), least significant first, of the (i div 8)-th of ceil(n/8) successive
\* draw-and-advance digests, the generator is left as those ceil(n/8) steps
\* leave it, and for n = 0 nothing is written and the state is unchanged.
C7_FillBytes ==
    last.op \in {"fill_bytes", "try_fill_bytes"} =>
        LET n == last.arg.v[1]
            d == Draws(last.pre, (n + 7) \div 8)
        IN  /\ Len(last.val) = n
            /\ \A i \in 1..n :
                  last.val[i] = LEByte(d.vals[((i - 1) \div 8) + 1], (i - 1) % 8)
            /\ gens[last.slot] = d.gen
            /\ Len(gens[last.slot].hasher.input)
                  = Len(last.pre.hasher.input) + ((n + 7) \div 8)
            /\ n = 0 => gens[last.slot] = last.pre /\ last.val = <<>>

\* A generator that had already been drawn from has filled a buffer of one
\* whole chunk and a tail of at most four bytes.
C7_Witness ==
    /\ last.op = "fill_bytes"
    /\ last.arg.v[1] > 8 /\ last.arg.v[1] <= 12
    /\ Len(path[last.slot]) >= Len(path[Root]) + 2

\* C8 (next_u32): the value returned is the low 32 bits of the value next_u64
\* returns from the same state, and the state is left as that one next_u64 call
\* leaves it: with the full 64-bit value written to the hasher.
C8_NextU32 ==
    last.op = "next_u32" =>
        LET d == Draws(last.pre, 1)
        IN  /\ u32_to_le_bytes(last.val) = [i \in 1..4 |-> LEByte(d.vals[1], i - 1)]
            /\ gens[last.slot] = d.gen
            /\ gens[last.slot] = next_u64(last.pre).self

\* next_u32 has returned a value whose 64-bit digest has other high bits than low.
C8_Witness ==
    /\ last.op = "next_u32"
    /\ LET v == finish(last.pre.hasher)
       IN  <<v[3], v[4]>> # <<v[1], v[2]>> /\ last.val = <<v[1], v[2]>>

C10_NewIsDefaultSeed ==
    /\ last.op = "new" =>
          LET viaSeed == seed(default(impl), last.arg).fork
          IN  /\ gens[last.target] = viaSeed
              /\ FirstDraw(gens[last.target]) = FirstDraw(viaSeed)
              /\ \A l \in Labels :
                    seed(gens[last.target], l).fork = seed(viaSeed, l).fork
    /\ last.op = "default" =>
          gens[last.target] = default(impl) /\ gens[last.target].hasher.input = <<>>
    /\ \A i, j \in Slots :
          path[i] = <<>> /\ path[j] = <<>> => gens[i] = gens[j]
    /\ \A s \in Slots : \A l \in Seeds :
          path[s] = <<Call("seed", l)>> => gens[s] = seed(default(impl), l).fork

\* new(seed) has been called where the root was built by default().
C10_Witness ==
    /\ last.op = "new"
    /\ last.arg \in Seeds
    /\ path[Root] = <<>>
    /\ gens[last.target] # gens[Root]

\* The IndexVec v holds exactly `amount` indices, each in 0..length (length
\* excluded), no index twice.
DistinctIndices(v, length, amount) ==
    /\ Len(v) = amount
    /\ \A p \in 1..Len(v) : v[p] \in 0..(length - 1)
    /\ \A p, q \in 1..Len(v) : p # q => v[p] # v[q]

\* C11 (Index sampling): a call seq::index::sample(rng, length, amount) with
\* amount <= length that has returned, returned exactly `amount` indices, all
\* distinct and each in 0..length; a call of sample_weighted with amount <= length
\* and every weight >= 0 returned Ok with such indices; both whatever state the
\* generator was in, which the call leaves with the caller as it was.
C11_IndexSampling ==
    /\ last.op = "index_sample" /\ last.arg.v[2] <= last.arg.v[1] =>
          /\ last.val.res = "Ok"
          /\ DistinctIndices(last.val.indices, last.arg.v[1], last.arg.v[2])
    /\ (/\ last.op = "index_sample_weighted"
        /\ last.arg.v[2] <= last.arg.v[1]
        /\ \A i \in 1..Len(last.arg.v[3]) : last.arg.v[3][i] >= 0) =>
          /\ last.val.res = "Ok"
          /\ DistinctIndices(last.val.indices, last.arg.v[1], last.arg.v[2])
    /\ last.op \in IndexOps => gens[last.slot] = last.pre

\* A generator forked from the root has sampled three of four indices, the
\* last of them not the one drawn first.
C11_Witness ==
    /\ last.op = "index_sample"
    /\ last.arg.v = <<4, 3>>
    /\ last.val.res = "Ok"
    /\ Len(path[last.slot]) > Len(path[Root])
    /\ last.val.indices[3] # gen_range_inclusive(last.pre, 0, 1).val

\* path p ends with the call c after the calls of q.
EndsWith(p, q, c) == p = Append(q, c)

\* C12 (Draw and fork share one absorb path): the state next_u64 leaves behind
\* is the state of the fork seed(v) of the state before, v the u64 the draw
\* returned; so a generator forked with a drawn value as its label equals the
\* generator that made the draw in place, and its first draw is the second draw
\* of that one.
C12_DrawForkShareAbsorb ==
    /\ last.op = "next_u64" =>
          /\ gens[last.slot] = seed(last.pre, U64Label(last.val)).fork
          /\ gens[last.slot].hasher = hash(U64Label(last.val), last.pre.hasher)
    /\ (last.op = "seed" /\ last.arg = U64Label(finish(last.pre.hasher))) =>
          /\ gens[last.target] = next_u64(last.pre).self
          /\ FirstDraw(gens[last.target]) = Draws(last.pre, 2).vals[2]
    /\ \A i, j \in Slots :
          (/\ outs[j] # <<>>
           /\ path[j] # <<>>
           /\ EndsWith(path[j], SubSeq(path[j], 1, Len(path[j]) - 1), Call("next_u64", NoArg))
           /\ EndsWith(path[i], SubSeq(path[j], 1, Len(path[j]) - 1),
                       Call("seed", U64Label(outs[j][Len(outs[j])])))) =>
              /\ gens[i] = gens[j]
              /\ FirstDraw(gens[i]) = FirstDraw(gens[j])

\* One holder has drawn in place from a copy of the root; another holds the
\* root's fork labelled with the value that draw returned.
C12_Witness ==
    /\ last.op = "seed"
    /\ last.slot = Root
    /\ \E j \in Holders :
          /\ j # last.target
          /\ path[j] = Append(path[Root], Call("next_u64", NoArg))
          /\ last.arg = U64Label(outs[j][1])
    /\ gens[last.target] # gens[Root]

====
